---------------------------- MODULE Spec2Model ----------------------------
(***************************************************************************)
(* A model of pkg/utils/util.go of the applicationset controller: the      *)
(* template renderer (RenderTemplateParams), its literal substitutor       *)
(* (replaceWithFastTemplate), its Go-template evaluator                    *)
(* (replaceWithGoTemplate) and the unrecognized-generator inspector        *)
(* (CheckInvalidGenerators / invalidGenerators).                           *)
(*                                                                         *)
(* Text is a sequence of characters.  A character is a one-letter string,  *)
(* or the name of a control character ("LF", "TAB", "BEL").  A Go pointer  *)
(* is a sequence of length 0 (nil) or 1; a Go error is its message, the    *)
(* empty sequence being the nil error.                                     *)
(***************************************************************************)
EXTENDS Integers, Sequences, FiniteSets, TLC

VARIABLES
    op,                 \* the function the caller invokes
    pc,                 \* "call": about to be invoked, "done": it has returned
    \* RenderTemplateParams: arguments, the objects they point to, and results
    tmpl, heap, syncPolicy, templateOptions, params,
    result, err, replacedTmpl, replacedTmplStr,
    \* replaceWithFastTemplate: arguments and results
    fstTmpl, replaceMap, allowUnresolved, replaced, unresolvedErr, writes,
    \* CheckInvalidGenerators: argument and results
    applicationSetInfo, hasInvalidGenerators, names, recovered, logged

vars == <<op, pc, tmpl, heap, syncPolicy, templateOptions, params,
          result, err, replacedTmpl, replacedTmplStr,
          fstTmpl, replaceMap, allowUnresolved, replaced, unresolvedErr, writes,
          applicationSetInfo, hasInvalidGenerators, names, recovered, logged>>

renderVars == <<tmpl, heap, syncPolicy, templateOptions, params,
                result, err, replacedTmpl, replacedTmplStr>>
fastVars == <<fstTmpl, replaceMap, allowUnresolved, replaced, unresolvedErr, writes>>
checkVars == <<applicationSetInfo, hasInvalidGenerators, names, recovered, logged>>

---------------------------------------------------------------------------
(* Characters and text *)

QUOTE == "\""
BSL == "\\"
OPEN == <<"{", "{">>
CLOSE == <<"}", "}">>

\* unicode.IsSpace on the modelled characters (strings.TrimSpace)
WhiteSpace == {" ", "TAB", "LF"}

\* The control characters of the model, each with its two hex digits.
ControlHex == [SOH |-> <<"0", "1">>, BEL |-> <<"0", "7">>,
               TAB |-> <<"0", "9">>, LF |-> <<"0", "a">>]
Controls == DOMAIN ControlHex

\* bytes.Index: the offset (from 0) of the first pat in s, or -1
Index(s, pat) ==
    LET hits == {i \in 0..(Len(s) - Len(pat)) : SubSeq(s, i + 1, i + Len(pat)) = pat}
    IN  IF hits = {} THEN -1 ELSE CHOOSE i \in hits : \A j \in hits : i <= j

\* s[n:]
From(s, n) == SubSeq(s, n + 1, Len(s))
\* s[:n]
Upto(s, n) == SubSeq(s, 1, n)

RECURSIVE TrimLeft(_)
TrimLeft(s) == IF s # <<>> /\ Head(s) \in WhiteSpace THEN TrimLeft(Tail(s)) ELSE s

RECURSIVE TrimRight(_)
TrimRight(s) ==
    IF s # <<>> /\ s[Len(s)] \in WhiteSpace THEN TrimRight(Upto(s, Len(s) - 1)) ELSE s

\* strings.TrimSpace
TrimSpace(s) == TrimRight(TrimLeft(s))

RECURSIVE Concat(_)
Concat(ss) == IF ss = <<>> THEN <<>> ELSE Head(ss) \o Concat(Tail(ss))

---------------------------------------------------------------------------
(* github.com/valyala/fasttemplate, as used with the tags "{{" and "}}" *)

\* Template.Reset: split the text at each start tag and the end tag after it.
\* ok is FALSE when a start tag has no end tag (New panics on that error).
RECURSIVE Reset(_, _, _)
Reset(s, texts, tags) ==
    LET n == Index(s, OPEN)
        s1 == From(s, n + Len(OPEN))
        m == Index(s1, CLOSE)
    IN  IF n < 0 THEN [ok |-> TRUE, texts |-> Append(texts, s), tags |-> tags]
        ELSE IF m < 0 THEN [ok |-> FALSE, texts |-> <<>>, tags |-> <<>>]
        ELSE Reset(From(s1, m + Len(CLOSE)), Append(texts, Upto(s, n)),
                   Append(tags, Upto(s1, m)))

\* fasttemplate.NewTemplate(template, "{{", "}}")
NewTemplate(template) ==
    LET r == Reset(template, <<>>, <<>>)
    IN  [ok |-> r.ok, template |-> template, texts |-> r.texts, tags |-> r.tags]

---------------------------------------------------------------------------
(* replaceWithFastTemplate *)

\* strconv.Quote's escape of one character: Go's escapes, not JSON's
GoEscape(c) ==
    CASE c = QUOTE -> <<BSL, QUOTE>>
      [] c = BSL -> <<BSL, BSL>>
      [] c = "BEL" -> <<BSL, "a">>
      [] c = "TAB" -> <<BSL, "t">>
      [] c = "LF" -> <<BSL, "n">>
      [] c \in Controls \ {"BEL", "TAB", "LF"} -> <<BSL, "x">> \o ControlHex[c]
      [] OTHER -> <<c>>

\* strconv.Quote
Quote(s) == <<QUOTE>> \o Concat([i \in 1..Len(s) |-> GoEscape(s[i])]) \o <<QUOTE>>

\* replacement = strconv.Quote(replacement); replacement[1 : len(replacement)-1]
EscapeReplacement(replacement) ==
    LET q == Quote(replacement) IN SubSeq(q, 2, Len(q) - 1)

\* The tag's key resolves: the trimmed tag is not empty and is a key of the map.
Resolves(tag, map) == Len(TrimSpace(tag)) # 0 /\ TrimSpace(tag) \in DOMAIN map

\* fmt.Sprintf("{{%s}}", tag)
TagText(tag) == OPEN \o tag \o CLOSE

\* fmt.Errorf("failed to resolve {{%s}}", tag)
FailedToResolve(tag) == <<"failed to resolve ">> \o TagText(tag)

\* What the callback passed to ExecuteFuncString writes for one tag.
TagWrite(tag, map, allow) ==
    IF ~Resolves(tag, map)
    THEN IF allow THEN TagText(tag) ELSE <<>>
    ELSE EscapeReplacement(map[TrimSpace(tag)])

\* Template.ExecuteFuncString: each text, then what the callback writes for
\* the tag after it, then the last text.
ExecuteFuncString(t, w) ==
    Concat([i \in 1..Len(t.tags) |-> t.texts[i] \o w[i]]) \o t.texts[Len(t.texts)]

\* A faulty variant of ReplaceWithFastTemplate: the text substituted so far
\* is returned with the error.
ReplaceWithFastTemplateKeepingOutput(t, map, allow) ==
    LET w == [i \in 1..Len(t.tags) |-> TagWrite(t.tags[i], map, allow)]
        failed == {i \in 1..Len(t.tags) : ~Resolves(t.tags[i], map) /\ ~allow}
        last == CHOOSE i \in failed : \A j \in failed : j <= i
        e == IF failed = {} THEN <<>> ELSE FailedToResolve(t.tags[last])
    IN  [out |-> ExecuteFuncString(t, w), err |-> e, writes |-> w]

\* replaceWithFastTemplate(fstTmpl, replaceMap, allowUnresolved): the string
\* and the error it returns, and what the callback wrote for each tag.
\* unresolvedErr is assigned at every unresolved tag, so the last one stays.
ReplaceWithFastTemplate(t, map, allow) ==
    LET w == [i \in 1..Len(t.tags) |-> TagWrite(t.tags[i], map, allow)]
        failed == {i \in 1..Len(t.tags) : ~Resolves(t.tags[i], map) /\ ~allow}
        last == CHOOSE i \in failed : \A j \in failed : j <= i
        e == IF failed = {} THEN <<>> ELSE FailedToResolve(t.tags[last])
    IN  [out |-> IF e # <<>> THEN <<>> ELSE ExecuteFuncString(t, w),
         err |-> e, writes |-> w]

---------------------------------------------------------------------------
(* Inputs of the direct calls of replaceWithFastTemplate *)

MaxChunks == 3

TokX == OPEN \o <<"x">> \o CLOSE
TokXsp == OPEN \o <<" ", "x", " ">> \o CLOSE
TokU == OPEN \o <<" ", "u">> \o CLOSE
TokSp == OPEN \o <<" ">> \o CLOSE

Chunks == {TokX, TokXsp, TokU, TokSp, <<"a">>, OPEN, CLOSE, <<"{">>}

RECURSIVE TextsOf(_)
TextsOf(n) ==
    IF n = 0 THEN {<<>>}
    ELSE LET shorter == TextsOf(n - 1)
         IN  shorter \cup {s \o c : s \in shorter, c \in Chunks}

\* A *fasttemplate.Template exists only for a text New accepted.
FastTemplates == {t \in {NewTemplate(s) : s \in TextsOf(MaxChunks)} : t.ok}

EmptyMap == [k \in {} |-> <<>>]

FastMaps == {EmptyMap,
             <<"x">> :> <<"v">>,
             <<"x">> :> OPEN,
             <<"x">> :> <<"LF", QUOTE>>}

---------------------------------------------------------------------------
(* The Application object and its JSON text (encoding/json).               *)
(* The object is metadata.name and metadata.finalizers; a key character    *)
(* such as "name:" stands for the quoted key and its colon.                *)

JsonOpen == <<"{", "metadata:", "{">>
JsonClose == <<"}", ",", "spec:", "{", "}", ",", "status:", "{", "}", "}">>

\* encoding/json's escape of one character of a string
JsonEscape(c) ==
    CASE c = QUOTE -> <<BSL, QUOTE>>
      [] c = BSL -> <<BSL, BSL>>
      [] c = "TAB" -> <<BSL, "t">>
      [] c = "LF" -> <<BSL, "n">>
      [] c \in Controls \ {"TAB", "LF"} -> <<BSL, "u", "0", "0">> \o ControlHex[c]
      [] OTHER -> <<c>>

JsonString(s) == <<QUOTE>> \o Concat([i \in 1..Len(s) |-> JsonEscape(s[i])]) \o <<QUOTE>>

RECURSIVE JoinComma(_)
JoinComma(ss) ==
    IF Len(ss) = 0 THEN <<>>
    ELSE IF Len(ss) = 1 THEN ss[1]
    ELSE ss[1] \o <<",">> \o JoinComma(Tail(ss))

\* json.Marshal(tmpl): name and finalizers are omitempty
JsonMarshal(app) ==
    JsonOpen
    \o (IF app.name = <<>> THEN <<>> ELSE <<"name:">> \o JsonString(app.name) \o <<",">>)
    \o <<"creationTimestamp:null">>
    \o (IF app.finalizers = <<>> THEN <<>>
        ELSE <<",", "finalizers:", "[">>
             \o JoinComma([i \in 1..Len(app.finalizers) |-> JsonString(app.finalizers[i])])
             \o <<"]">>)
    \o JsonClose

HexDigits == {"0", "1", "2", "3", "4", "5", "6", "7", "8", "9",
              "a", "b", "c", "d", "e", "f"}

\* The character \u00hh names, for the hex digits hh
Unescaped(hh) ==
    IF \E c \in Controls : ControlHex[c] = hh
    THEN CHOOSE c \in Controls : ControlHex[c] = hh
    ELSE "U+00hh"

\* The escapes JSON knows besides \uXXXX, and the character each stands for
JsonSimpleEscapes ==
    (QUOTE :> QUOTE) @@ (BSL :> BSL) @@ ("/" :> "/") @@ ("b" :> "BS") @@
    ("f" :> "FF") @@ ("n" :> "LF") @@ ("r" :> "CR") @@ ("t" :> "TAB")

NoParse == [ok |-> FALSE, val |-> <<>>, next |-> 0]

\* The decoder's scan of a string literal from the character after its
\* opening quote: an escape JSON does not know, or a raw control character,
\* is a syntax error.
RECURSIVE ScanJsonString(_, _, _)
ScanJsonString(s, i, acc) ==
    IF i > Len(s) THEN NoParse
    ELSE IF s[i] = QUOTE THEN [ok |-> TRUE, val |-> acc, next |-> i + 1]
    ELSE IF s[i] \in Controls THEN NoParse
    ELSE IF s[i] # BSL THEN ScanJsonString(s, i + 1, Append(acc, s[i]))
    ELSE IF i + 1 > Len(s) THEN NoParse
    ELSE IF s[i + 1] \in DOMAIN JsonSimpleEscapes
         THEN ScanJsonString(s, i + 2, Append(acc, JsonSimpleEscapes[s[i + 1]]))
    ELSE IF s[i + 1] = "u" /\ i + 5 <= Len(s)
            /\ \A k \in (i + 2)..(i + 5) : s[k] \in HexDigits
         THEN IF SubSeq(s, i + 2, i + 3) = <<"0", "0">>
              THEN ScanJsonString(s, i + 6, Append(acc, Unescaped(SubSeq(s, i + 4, i + 5))))
              ELSE ScanJsonString(s, i + 6, Append(acc, "U+hhhh"))
    ELSE NoParse

ParseJsonString(s, i) ==
    IF i <= Len(s) /\ s[i] = QUOTE THEN ScanJsonString(s, i + 1, <<>>) ELSE NoParse

\* The elements of an array of strings, from the character after "[",
\* and what follows an element e: a comma and the next, or "]"
RECURSIVE ParseJsonStrings(_, _, _)
RECURSIVE AfterJsonElement(_, _, _)
ParseJsonStrings(s, i, acc) ==
    IF i <= Len(s) /\ s[i] = "]" /\ acc = <<>>
    THEN [ok |-> TRUE, val |-> <<>>, next |-> i + 1]
    ELSE AfterJsonElement(s, acc, ParseJsonString(s, i))

AfterJsonElement(s, acc, e) ==
    IF ~e.ok \/ e.next > Len(s) THEN NoParse
    ELSE IF s[e.next] = "," THEN ParseJsonStrings(s, e.next + 1, Append(acc, e.val))
    ELSE IF s[e.next] = "]"
         THEN [ok |-> TRUE, val |-> Append(acc, e.val), next |-> e.next + 1]
    ELSE NoParse

HasAt(s, i, lit) == i + Len(lit) - 1 <= Len(s) /\ SubSeq(s, i, i + Len(lit) - 1) = lit

BadObject == [ok |-> FALSE, obj |-> [name |-> <<>>, finalizers |-> <<>>]]

\* The decoder after metadata's fields: the rest of the object
JsonEnd(s, name, finalizers, i) ==
    IF SubSeq(s, i, Len(s)) = JsonClose
    THEN [ok |-> TRUE, obj |-> [name |-> name, finalizers |-> finalizers]]
    ELSE BadObject

JsonAfterFinalizers(s, name, f) ==
    IF f.ok THEN JsonEnd(s, name, f.val, f.next) ELSE BadObject

\* creationTimestamp, then finalizers if the text has them
JsonFromTimestamp(s, name, i) ==
    IF ~HasAt(s, i, <<"creationTimestamp:null">>) THEN BadObject
    ELSE IF HasAt(s, i + 1, <<",", "finalizers:", "[">>)
    THEN JsonAfterFinalizers(s, name, ParseJsonStrings(s, i + 4, <<>>))
    ELSE JsonEnd(s, name, <<>>, i + 1)

JsonAfterName(s, n) ==
    IF n.ok /\ HasAt(s, n.next, <<",">>) THEN JsonFromTimestamp(s, n.val, n.next + 1)
    ELSE BadObject

\* json.Unmarshal([]byte(replacedTmplStr), &replacedTmpl): the object, or an
\* error.  The text is a marshalled Application whose strings were rewritten,
\* so the decoder follows the layout JsonMarshal writes: name if the text
\* has it, creationTimestamp, finalizers if the text has them.
JsonUnmarshal(s) ==
    IF ~HasAt(s, 1, JsonOpen) THEN BadObject
    ELSE IF HasAt(s, Len(JsonOpen) + 1, <<"name:">>)
    THEN JsonAfterName(s, ParseJsonString(s, Len(JsonOpen) + 2))
    ELSE JsonFromTimestamp(s, <<>>, Len(JsonOpen) + 1)

---------------------------------------------------------------------------
(* The Application's YAML text (sigs.k8s.io/yaml): keys in sorted order,   *)
(* one per line.  A key character such as "  name: " stands for the        *)
(* indented key, its colon and the space after it.                         *)

Letters == {"a", "b", "c", "d", "e", "f", "p", "u", "v", "x", "z"}

\* A string made of letters is written plain; any other string of the model
\* is written single-quoted with its quotes doubled, the empty string as "".
\* (Strings with control characters, which are written double-quoted, are
\* not among the templates.)
YamlScalar(s) ==
    IF s = <<>> THEN <<QUOTE, QUOTE>>
    ELSE IF \A i \in 1..Len(s) : s[i] \in Letters THEN s
    ELSE <<"'">>
         \o Concat([i \in 1..Len(s) |-> IF s[i] = "'" THEN <<"'", "'">> ELSE <<s[i]>>])
         \o <<"'">>

\* yaml.Marshal(tmpl)
YamlMarshal(app) ==
    <<"metadata:", "LF", "  creationTimestamp: null", "LF">>
    \o (IF app.finalizers = <<>> THEN <<>>
        ELSE <<"  finalizers:", "LF">>
             \o Concat([i \in 1..Len(app.finalizers) |->
                           <<"  - ">> \o YamlScalar(app.finalizers[i]) \o <<"LF">>]))
    \o (IF app.name = <<>> THEN <<>>
        ELSE <<"  name: ">> \o YamlScalar(app.name) \o <<"LF">>)
    \o <<"spec: {}", "LF", "status: {}", "LF">>

\* The white space from position i on, and the line breaks in it
RECURSIVE SkipWhite(_, _, _)
SkipWhite(s, i, breaks) ==
    IF i <= Len(s) /\ s[i] \in WhiteSpace
    THEN SkipWhite(s, i + 1, IF s[i] = "LF" THEN breaks + 1 ELSE breaks)
    ELSE [next |-> i, breaks |-> breaks]

\* The scan of a single-quoted scalar from the character after its opening
\* quote: '' is a quote, a quote alone ends the scalar, a line break with
\* the white space around it folds to a space (more breaks: to one break
\* fewer), a control character that is not white space is refused.
RECURSIVE ScanYamlQuoted(_, _, _)
ScanYamlQuoted(s, i, acc) ==
    IF i > Len(s) THEN NoParse
    ELSE IF s[i] = "'"
         THEN IF i + 1 <= Len(s) /\ s[i + 1] = "'"
              THEN ScanYamlQuoted(s, i + 2, Append(acc, "'"))
              ELSE [ok |-> TRUE, val |-> acc, next |-> i + 1]
    ELSE IF s[i] \in Controls \ WhiteSpace THEN NoParse
    ELSE IF s[i] \in WhiteSpace
         THEN LET w == SkipWhite(s, i, 0)
              IN  IF w.breaks = 0
                  THEN ScanYamlQuoted(s, i + 1, Append(acc, s[i]))
                  ELSE ScanYamlQuoted(s, w.next,
                           acc \o IF w.breaks = 1 THEN <<" ">>
                                  ELSE [k \in 1..(w.breaks - 1) |-> "LF"])
    ELSE ScanYamlQuoted(s, i + 1, Append(acc, s[i]))

\* The end of the line a scalar ended on: only spaces may follow it.
RECURSIVE EndOfLine(_, _)
EndOfLine(s, i) ==
    IF i > Len(s) THEN 0
    ELSE IF s[i] = "LF" THEN i + 1
    ELSE IF s[i] = " " THEN EndOfLine(s, i + 1)
    ELSE 0

\* A plain scalar: the letters up to the end of the line
RECURSIVE ScanYamlPlain(_, _, _)
ScanYamlPlain(s, i, acc) ==
    IF i > Len(s) THEN NoParse
    ELSE IF s[i] = "LF"
         THEN IF acc = <<>> THEN NoParse ELSE [ok |-> TRUE, val |-> acc, next |-> i + 1]
    ELSE IF s[i] \in Letters THEN ScanYamlPlain(s, i + 1, Append(acc, s[i]))
    ELSE NoParse

\* A quoted scalar q and the rest of its line
YamlQuotedLine(s, q) ==
    IF q.ok /\ EndOfLine(s, q.next) # 0
    THEN [ok |-> TRUE, val |-> q.val, next |-> EndOfLine(s, q.next)]
    ELSE NoParse

\* A scalar and the rest of its line; next is the start of the next line.
ParseYamlScalar(s, i) ==
    IF i > Len(s) THEN NoParse
    ELSE IF s[i] = "'" THEN YamlQuotedLine(s, ScanYamlQuoted(s, i + 1, <<>>))
    ELSE IF s[i] = QUOTE
         THEN IF HasAt(s, i, <<QUOTE, QUOTE, "LF">>)
              THEN [ok |-> TRUE, val |-> <<>>, next |-> i + 3]
              ELSE NoParse
    ELSE ScanYamlPlain(s, i, <<>>)

\* The entries of a block sequence of scalars, and what follows an entry e
RECURSIVE ParseYamlEntries(_, _, _)
RECURSIVE AfterYamlEntry(_, _, _)
ParseYamlEntries(s, i, acc) ==
    IF ~HasAt(s, i, <<"  - ">>) THEN [ok |-> acc # <<>>, val |-> acc, next |-> i]
    ELSE AfterYamlEntry(s, acc, ParseYamlScalar(s, i + 1))

AfterYamlEntry(s, acc, e) ==
    IF e.ok THEN ParseYamlEntries(s, e.next, Append(acc, e.val)) ELSE NoParse

YamlHead == <<"metadata:", "LF", "  creationTimestamp: null", "LF">>
YamlTail == <<"spec: {}", "LF", "status: {}", "LF">>

\* The decoder after metadata's fields: the rest of the document
YamlEnd(s, finalizers, n) ==
    IF n.ok /\ SubSeq(s, n.next, Len(s)) = YamlTail
    THEN [ok |-> TRUE, obj |-> [name |-> n.val, finalizers |-> finalizers]]
    ELSE BadObject

\* name, if the text has it
YamlFromName(s, f) ==
    IF ~f.ok THEN BadObject
    ELSE IF HasAt(s, f.next, <<"  name: ">>)
    THEN YamlEnd(s, f.val, ParseYamlScalar(s, f.next + 1))
    ELSE YamlEnd(s, f.val, [ok |-> TRUE, val |-> <<>>, next |-> f.next])

\* yaml.Unmarshal([]byte(replacedTmplStr), &replacedTmpl): the object, or an
\* error.  The text is a marshalled Application whose scalars were
\* rewritten, so the decoder follows the layout YamlMarshal writes.
YamlUnmarshal(s) ==
    IF ~HasAt(s, 1, YamlHead) THEN BadObject
    ELSE IF HasAt(s, Len(YamlHead) + 1, <<"  finalizers:", "LF">>)
    THEN YamlFromName(s, ParseYamlEntries(s, Len(YamlHead) + 3, <<>>))
    ELSE YamlFromName(s, [ok |-> TRUE, val |-> <<>>, next |-> Len(YamlHead) + 1])

---------------------------------------------------------------------------
(* text/template with Option("missingkey=zero"), and replaceWithGoTemplate *)

\* The keys of the model's maps, in the order fmt prints a map's keys
KeyOrder == << <<"u">>, <<"x">> >>

RECURSIVE JoinSpace(_)
JoinSpace(ss) ==
    IF Len(ss) = 0 THEN <<>>
    ELSE IF Len(ss) = 1 THEN ss[1]
    ELSE ss[1] \o <<" ">> \o JoinSpace(Tail(ss))

\* What {{.}} prints: map[k:v k:v]
MapText(map) ==
    LET InMap(k) == k \in DOMAIN map
        keys == SelectSeq(KeyOrder, InMap)
    IN  <<"m", "a", "p", "[">>
        \o JoinSpace([i \in 1..Len(keys) |-> keys[i] \o <<":">> \o map[keys[i]]])
        \o <<"]">>

\* The fields of an action .a.b.c, or <<>> when the action is not a chain of
\* fields; the dot alone has the one field <<>>.
RECURSIVE FieldsOf(_, _, _)
FieldsOf(c, cur, acc) ==
    IF c = <<>> THEN Append(acc, cur)
    ELSE IF Head(c) = "." THEN FieldsOf(Tail(c), <<>>, Append(acc, cur))
    ELSE IF Head(c) \in Letters THEN FieldsOf(Tail(c), Append(cur, Head(c)), acc)
    ELSE <<>>

\* An action's pipeline, from the text between its delimiters: "dot",
\* "field" with its chain of names, or "bad" for what Parse refuses (an
\* empty action, a function that is not defined, a character that starts no
\* token).
ActionOf(content) ==
    LET c == TrimSpace(content)
        fs == IF c # <<>> /\ Head(c) = "." THEN FieldsOf(Tail(c), <<>>, <<>>) ELSE <<>>
    IN  IF c = <<".">> THEN [kind |-> "dot", fields |-> <<>>]
        ELSE IF fs # <<>> /\ \A i \in 1..Len(fs) : fs[i] # <<>>
             THEN [kind |-> "field", fields |-> fs]
        ELSE [kind |-> "bad", fields |-> <<>>]

\* template.New("argocd-app").Option("missingkey=zero").Funcs(...).Parse(text):
\* the texts and the actions between them, or an error (an action that is
\* not closed, or one Parse refuses).
RECURSIVE GoParse(_, _, _)
GoParse(s, texts, actions) ==
    LET n == Index(s, OPEN)
        s1 == From(s, n + Len(OPEN))
        m == Index(s1, CLOSE)
        a == ActionOf(Upto(s1, m))
    IN  IF n < 0 THEN [ok |-> TRUE, texts |-> Append(texts, s), actions |-> actions]
        ELSE IF m < 0 \/ a.kind = "bad" THEN [ok |-> FALSE, texts |-> <<>>, actions |-> <<>>]
        ELSE GoParse(From(s1, m + Len(CLOSE)), Append(texts, Upto(s, n)),
                     Append(actions, a))

\* An action's evaluation against the map: a key that is missing yields the
\* zero value, the empty string; a field of a string is an error.
EvalAction(a, map) ==
    IF a.kind = "dot" THEN [ok |-> TRUE, text |-> MapText(map)]
    ELSE IF Len(a.fields) > 1 THEN [ok |-> FALSE, text |-> <<>>]
    ELSE [ok |-> TRUE,
          text |-> IF a.fields[1] \in DOMAIN map THEN map[a.fields[1]] ELSE <<>>]

\* replaceWithGoTemplate(goTemplate, replaceMap): goTemplate.Execute into a
\* buffer; the values are written as they are, without any escaping.
ReplaceWithGoTemplate(t, map) ==
    LET ev == [i \in 1..Len(t.actions) |-> EvalAction(t.actions[i], map)]
    IN  IF \E i \in 1..Len(ev) : ~ev[i].ok
        THEN [out |-> <<>>, err |-> <<"template: argocd-app: can't evaluate field">>]
        ELSE [out |-> Concat([i \in 1..Len(ev) |-> t.texts[i] \o ev[i].text])
                      \o t.texts[Len(t.texts)],
              err |-> <<>>]

---------------------------------------------------------------------------
(* RenderTemplateParams *)

ResourcesFinalizer == <<"resources-finalizer.argocd.argoproj.io">>

\* The address of the caller's template, and of the local replacedTmpl
TmplAddr == "t"
ReplacedAddr == "r"

NoObject == [name |-> <<>>, finalizers |-> <<>>]
NoTemplate == [ok |-> FALSE, template |-> <<>>, texts |-> <<>>, tags |-> <<>>]
NoFastCall == [called |-> FALSE, fstTmpl |-> NoTemplate, out |-> <<>>,
               err |-> <<>>, writes |-> <<>>]

\* A faulty variant of NoParams: the template is always rendered.
NoParamsNever(p) == FALSE

\* len(params) == 0: the template is returned as it is
NoParams(p) == Cardinality(DOMAIN p) = 0

\* templateOptions == nil || !templateOptions.GotemplateEnabled
UseFastTemplate(opts) == opts = <<>> \/ ~opts[1].GotemplateEnabled

\* A faulty variant of AddsFinalizer: a syncPolicy, whatever it says,
\* suppresses the finalizer.
AddsFinalizerWithoutPolicy(sp, obj) == sp = <<>> /\ Len(obj.finalizers) = 0

\* The finalizer is added when there is no syncPolicy or it does not preserve
\* the resources, and the rendered object has no finalizers.
AddsFinalizer(sp, obj) ==
    (sp = <<>> \/ ~sp[1].PreserveResourcesOnDeletion) /\ Len(obj.finalizers) = 0

\* A faulty variant of FinalizerRule: the finalizer is appended to the
\* finalizers the object has.
FinalizerRuleAppending(sp, obj) ==
    IF sp = <<>> \/ ~sp[1].PreserveResourcesOnDeletion
    THEN [obj EXCEPT !.finalizers = Append(@, ResourcesFinalizer)]
    ELSE obj

FinalizerRule(sp, obj) ==
    IF AddsFinalizer(sp, obj)
    THEN [obj EXCEPT !.finalizers = <<ResourcesFinalizer>>]
    ELSE obj

\* A faulty variant of Failure: the object is returned with the error.
FailureWithObject(e, h, str, call) ==
    [result |-> <<ReplacedAddr>>, err |-> e, heap |-> h @@ (ReplacedAddr :> NoObject),
     replacedTmpl |-> <<>>, replacedTmplStr |-> str, call |-> call]

\* return nil, err
Failure(e, h, str, call) ==
    [result |-> <<>>, err |-> e, heap |-> h, replacedTmpl |-> <<>>,
     replacedTmplStr |-> str, call |-> call]

\* A faulty variant of Success: the template is overwritten and returned.
SuccessInPlace(sp, obj, h, str, call) ==
    [result |-> <<TmplAddr>>, err |-> <<>>,
     heap |-> [h EXCEPT ![TmplAddr] = FinalizerRule(sp, obj)],
     replacedTmpl |-> <<obj>>, replacedTmplStr |-> str, call |-> call]

\* return &replacedTmpl, nil: replacedTmpl is a variable of the call, which
\* held obj after the deserialization
Success(sp, obj, h, str, call) ==
    [result |-> <<ReplacedAddr>>, err |-> <<>>,
     heap |-> h @@ (ReplacedAddr :> FinalizerRule(sp, obj)),
     replacedTmpl |-> <<obj>>, replacedTmplStr |-> str, call |-> call]

\* The call of replaceWithFastTemplate the fast path made
FastCall(fst, sub) ==
    [called |-> TRUE, fstTmpl |-> fst, out |-> sub.out, err |-> sub.err,
     writes |-> sub.writes]

\* err = json.Unmarshal([]byte(replacedTmplStr), &replacedTmpl), and the rest
FastDeserialized(h, sp, fst, sub, un) ==
    IF ~un.ok
    THEN Failure(<<"json: invalid character in string literal">>, h, sub.out,
                 FastCall(fst, sub))
    ELSE Success(sp, un.obj, h, sub.out, FastCall(fst, sub))

\* replacedTmplStr, err = r.replaceWithFastTemplate(fstTmpl, params, true)
FastReplaced(h, sp, fst, sub) ==
    IF sub.err # <<>> THEN Failure(sub.err, h, <<>>, FastCall(fst, sub))
    ELSE FastDeserialized(h, sp, fst, sub, JsonUnmarshal(sub.out))

\* fstTmpl := fasttemplate.New(string(tmplBytes), "{{", "}}"), which panics
\* when a start tag has no end tag
FastParsed(h, sp, p, fst) ==
    IF ~fst.ok THEN Failure(<<"panic: Cannot find end tag">>, h, <<>>, NoFastCall)
    ELSE FastReplaced(h, sp, fst, ReplaceWithFastTemplate(fst, p, TRUE))

\* The fast path: json.Marshal(tmpl) and the steps after it
FastPath(obj, h, sp, p) == FastParsed(h, sp, p, NewTemplate(JsonMarshal(obj)))

\* err = yaml.Unmarshal([]byte(replacedTmplStr), &replacedTmpl), and the rest
GoDeserialized(h, sp, sub, un) ==
    IF ~un.ok
    THEN Failure(<<"error converting YAML to JSON">>, h, sub.out, NoFastCall)
    ELSE Success(sp, un.obj, h, sub.out, NoFastCall)

\* replacedTmplStr, err = r.replaceWithGoTemplate(goTemplate, params)
GoReplaced(h, sp, sub) ==
    IF sub.err # <<>> THEN Failure(sub.err, h, <<>>, NoFastCall)
    ELSE GoDeserialized(h, sp, sub, YamlUnmarshal(sub.out))

\* goTemplate, err := template.New("argocd-app")...Parse(string(tmplBytes))
GoParsed(h, sp, p, goTemplate) ==
    IF ~goTemplate.ok
    THEN Failure(<<"template: argocd-app: parse error">>, h, <<>>, NoFastCall)
    ELSE GoReplaced(h, sp, ReplaceWithGoTemplate(goTemplate, p))

\* The Go-template path: yaml.Marshal(tmpl) and the steps after it
GoTemplatePath(obj, h, sp, p) == GoParsed(h, sp, p, GoParse(YamlMarshal(obj), <<>>, <<>>))

\* RenderTemplateParams(tmpl, syncPolicy, templateOptions, params) on the
\* heap h: what it returns, the heap it leaves, the object it deserialized
\* (before the finalizer rule), the substituted text, and the call of
\* replaceWithFastTemplate it made.
RenderTemplateParams(t, h, sp, opts, p) ==
    IF t = <<>> THEN Failure(<<"application template is empty ">>, h, <<>>, NoFastCall)
    ELSE IF NoParams(p)
    THEN [result |-> t, err |-> <<>>, heap |-> h, replacedTmpl |-> <<>>,
          replacedTmplStr |-> <<>>, call |-> NoFastCall]
    ELSE IF UseFastTemplate(opts) THEN FastPath(h[t[1]], h, sp, p)
    ELSE GoTemplatePath(h[t[1]], h, sp, p)

---------------------------------------------------------------------------
(* CheckInvalidGenerators, invalidGenerators, addInvalidGeneratorNames     *)
(*                                                                         *)
(* A generator is the set of its fields that are not nil.  The annotation  *)
(* "kubectl.kubernetes.io/last-applied-configuration" is absent, or text   *)
(* that is not JSON, or the JSON value it holds; a JSON value is a record  *)
(* of its type t, its items (an array's) and its fields (an object's).     *)

\* The fields of ApplicationSetGenerator, all pointers
GeneratorFields == {"List", "Clusters", "Git", "SCMProvider",
                    "ClusterDecisionResource", "PullRequest", "Matrix", "Merge"}

JNull == [t |-> "null", items |-> <<>>, fields |-> <<>>]
JString == [t |-> "string", items |-> <<>>, fields |-> <<>>]
JArray(items) == [t |-> "array", items |-> items, fields |-> <<>>]
JObject(fields) == [t |-> "object", items |-> <<>>, fields |-> fields]

\* A faulty variant of Found: only the first field is looked at.
FoundInFirstField(generator) == "List" \in generator

\* The loop over the generator's fields: one that is not nil is found
Found(generator) == \E field \in GeneratorFields : field \in generator

\* json.Unmarshal([]byte(config), &values) into a map[string]interface{}:
\* an empty or malformed text, and a value that is no object, are errors;
\* null leaves the map nil.
UnmarshalConfig(config) ==
    IF config.kind # "json" \/ config.value.t \notin {"object", "null"}
    THEN [ok |-> FALSE, values |-> <<>>]
    ELSE [ok |-> TRUE, values |-> config.value.fields]

\* m[key].(map[string]interface{}) and m[key].([]interface{})
IsA(m, key, t) == key \in DOMAIN m /\ m[key].t = t

\* The keys addInvalidGeneratorNames may add for the generator at index
\* (from 0): none when a step of the navigation fails, else the keys of
\* spec.generators[index], of which the range loop takes the first it meets.
GeneratorKeys(info, index) ==
    LET u == UnmarshalConfig(info.annotation)
        spec == u.values["spec"].fields
        generators == spec["generators"].items
    IN  IF ~u.ok THEN {}
        ELSE IF ~IsA(u.values, "spec", "object") THEN {}
        ELSE IF ~IsA(spec, "generators", "array") THEN {}
        ELSE IF index >= Len(generators) THEN {}
        ELSE IF generators[index + 1].t # "object" THEN {}
        ELSE DOMAIN generators[index + 1].fields

\* A faulty variant of AddInvalidGeneratorNames: the loop does not break.
AddAllGeneratorNames(ns, info, index) == {ns \cup GeneratorKeys(info, index)}

\* addInvalidGeneratorNames(names, applicationSetInfo, index): the sets
\* names may be afterwards (the order a map is ranged over is not fixed)
AddInvalidGeneratorNames(ns, info, index) ==
    LET keys == GeneratorKeys(info, index)
    IN  IF keys = {} THEN {ns} ELSE {ns \cup {key} : key \in keys}

\* The loop of invalidGenerators from index on: the outcomes it may end in,
\* each with the indexes name recovery was called for.
RECURSIVE InvalidGeneratorsFrom(_, _, _)
InvalidGeneratorsFrom(info, index, acc) ==
    IF index >= Len(info.generators) THEN {acc}
    ELSE IF Found(info.generators[index + 1])
    THEN InvalidGeneratorsFrom(info, index + 1, acc)
    ELSE UNION {InvalidGeneratorsFrom(info, index + 1,
                    [has |-> TRUE, names |-> ns,
                     recovered |-> acc.recovered \cup {index}])
                : ns \in AddInvalidGeneratorNames(acc.names, info, index)}

\* invalidGenerators(applicationSetInfo)
InvalidGenerators(info) ==
    InvalidGeneratorsFrom(info, 0, [has |-> FALSE, names |-> {}, recovered |-> {}])

\* The generator names of the model, in the order sort.Strings puts them
NameOrder == <<"git", "list", "matrix">>

\* The warning CheckInvalidGenerators logs, if any
Warning(info, has, ns) ==
    LET InNames(n) == n \in ns
    IN  IF Cardinality(ns) > 0
        THEN [msg |-> "ApplicationSet %s contains unrecognized generators: %s",
              aname |-> info.name, gnames |-> SelectSeq(NameOrder, InNames)]
        ELSE IF has
        THEN [msg |-> "ApplicationSet %s contains unrecognized generators",
              aname |-> info.name, gnames |-> <<>>]
        ELSE [msg |-> "", aname |-> "", gnames |-> <<>>]

---------------------------------------------------------------------------
(* The calls the model makes *)

MaxFinalizers == 2
MaxValueLen == 2
MaxGenerators == 2
MaxEntries == 2

RECURSIVE SeqsUpTo(_, _)
SeqsUpTo(S, n) ==
    IF n = 0 THEN {<<>>}
    ELSE LET shorter == SeqsUpTo(S, n - 1)
         IN  shorter \cup {Append(q, e) : q \in shorter, e \in S}

DotX == OPEN \o <<".", "x">> \o CLOSE
DotU == OPEN \o <<" ", ".", "u", " ">> \o CLOSE
DotXU == OPEN \o <<".", "x", ".", "u">> \o CLOSE

\* Template names: plain text; tokens of the fast path; actions of the
\* Go-template path (a field, a missing key, a field of a string); a start
\* tag that is not closed.
TemplateNames == {<<"a", "p", "p">>, TokX, TokXsp, TokU, DotX, DotU, DotXU, OPEN}
TemplateFinalizers == {<<"f", "z">>, TokX, DotX}

Templates == {[name |-> n, finalizers |-> f] :
                 n \in TemplateNames, f \in SeqsUpTo(TemplateFinalizers, MaxFinalizers)}

SyncPolicies == {<<>>} \cup {<<[PreserveResourcesOnDeletion |-> b]>> : b \in BOOLEAN}
TemplateOptions == {<<>>} \cup {<<[GotemplateEnabled |-> b]>> : b \in BOOLEAN}

\* A nil map and an empty map are the same to the code (len, lookup).
RenderMaps == {EmptyMap,
               <<"x">> :> <<"v">>,
               <<"x">> :> <<>>,
               <<"x">> :> <<"a", "LF", "b", QUOTE, "c">>,
               <<"x">> :> <<"'">>,
               (<<"x">> :> <<"v">>) @@ (<<"u">> :> <<"b">>)}

\* The replacement values the escaping is checked on
ValueChars == {"a", QUOTE, BSL, "LF", "TAB", "BEL", "SOH"}
EscapeMaps == {<<"x">> :> v : v \in SeqsUpTo(ValueChars, MaxValueLen)}

RenderInputs ==
    {[tmpl |-> <<TmplAddr>>, obj |-> <<o>>, params |-> p] : o \in Templates, p \in RenderMaps}
    \cup {[tmpl |-> <<TmplAddr>>, obj |-> <<[name |-> TokX, finalizers |-> <<>>]>>,
           params |-> p] : p \in EscapeMaps}
    \cup {[tmpl |-> <<>>, obj |-> <<>>, params |-> p] : p \in RenderMaps}

\* Generators: none of the fields set, one set, two set
Generators == {{}, {"List"}, {"Git", "Matrix"}}

\* spec.generators[i] of the annotation: a mapping of no, one or two keys,
\* or no mapping
Entries == {JObject(<<>>),
            JObject("list" :> JObject(<<>>)),
            JObject(("git" :> JObject(<<>>)) @@ ("matrix" :> JObject(<<>>))),
            JString}

Annotations ==
    {[kind |-> "absent", value |-> JNull], [kind |-> "malformed", value |-> JNull]}
    \cup {[kind |-> "json", value |-> v] :
             v \in {JNull, JArray(<<>>), JObject(<<>>),
                    JObject("spec" :> JString),
                    JObject("spec" :> JObject(<<>>)),
                    JObject("spec" :> JObject("generators" :> JObject(<<>>)))}
                   \cup {JObject("spec" :> JObject("generators" :> JArray(es))) :
                            es \in SeqsUpTo(Entries, MaxEntries)}}

ApplicationSets ==
    {[name |-> "appset", generators |-> gs, annotation |-> a] :
        gs \in SeqsUpTo(Generators, MaxGenerators), a \in Annotations}

NoApplicationSet == [name |-> "", generators |-> <<>>,
                     annotation |-> [kind |-> "absent", value |-> JNull]]
NoWarning == [msg |-> "", aname |-> "", gnames |-> <<>>]

RenderIdle ==
    /\ tmpl = <<>> /\ heap = <<>> /\ syncPolicy = <<>> /\ templateOptions = <<>>
    /\ params = EmptyMap
    /\ result = <<>> /\ err = <<>> /\ replacedTmpl = <<>> /\ replacedTmplStr = <<>>

FastIdle ==
    /\ fstTmpl = NoTemplate /\ replaceMap = EmptyMap /\ allowUnresolved = FALSE
    /\ replaced = <<>> /\ unresolvedErr = <<>> /\ writes = <<>>

CheckIdle ==
    /\ applicationSetInfo = NoApplicationSet /\ hasInvalidGenerators = FALSE
    /\ names = {} /\ recovered = {} /\ logged = NoWarning

\* A caller about to call RenderTemplateParams
InitRender ==
    /\ op = "RenderTemplateParams" /\ pc = "call"
    /\ \E in \in RenderInputs :
          /\ tmpl = in.tmpl
          /\ heap = IF in.tmpl = <<>> THEN <<>> ELSE TmplAddr :> in.obj[1]
          /\ params = in.params
    /\ syncPolicy \in SyncPolicies
    /\ templateOptions \in TemplateOptions
    /\ result = <<>> /\ err = <<>> /\ replacedTmpl = <<>> /\ replacedTmplStr = <<>>
    /\ FastIdle /\ CheckIdle

\* A caller about to call replaceWithFastTemplate
InitFast ==
    /\ op = "replaceWithFastTemplate" /\ pc = "call"
    /\ fstTmpl \in FastTemplates
    /\ replaceMap \in FastMaps
    /\ allowUnresolved \in BOOLEAN
    /\ replaced = <<>> /\ unresolvedErr = <<>> /\ writes = <<>>
    /\ RenderIdle /\ CheckIdle

\* A caller about to call CheckInvalidGenerators
InitCheck ==
    /\ op = "CheckInvalidGenerators" /\ pc = "call"
    /\ applicationSetInfo \in ApplicationSets
    /\ hasInvalidGenerators = FALSE /\ names = {} /\ recovered = {} /\ logged = NoWarning
    /\ RenderIdle /\ FastIdle

Init == InitRender \/ InitFast \/ InitCheck

\* The caller's variables after the call returned r
Returned(r) ==
    /\ result' = r.result
    /\ err' = r.err
    /\ heap' = r.heap
    /\ replacedTmpl' = r.replacedTmpl
    /\ replacedTmplStr' = r.replacedTmplStr
    /\ IF r.call.called
       THEN /\ fstTmpl' = r.call.fstTmpl
            /\ replaceMap' = params
            /\ allowUnresolved' = TRUE
            /\ replaced' = r.call.out
            /\ unresolvedErr' = r.call.err
            /\ writes' = r.call.writes
       ELSE UNCHANGED fastVars

CallRenderTemplateParams ==
    /\ op = "RenderTemplateParams" /\ pc = "call"
    /\ Returned(RenderTemplateParams(tmpl, heap, syncPolicy, templateOptions, params))
    /\ pc' = "done"
    /\ UNCHANGED <<op, tmpl, syncPolicy, templateOptions, params>>
    /\ UNCHANGED checkVars

\* The caller's variables after replaceWithFastTemplate returned r
FastReturned(r) ==
    /\ replaced' = r.out
    /\ unresolvedErr' = r.err
    /\ writes' = r.writes

CallReplaceWithFastTemplate ==
    /\ op = "replaceWithFastTemplate" /\ pc = "call"
    /\ FastReturned(ReplaceWithFastTemplate(fstTmpl, replaceMap, allowUnresolved))
    /\ pc' = "done"
    /\ UNCHANGED <<op, fstTmpl, replaceMap, allowUnresolved>>
    /\ UNCHANGED renderVars
    /\ UNCHANGED checkVars

CallCheckInvalidGenerators ==
    /\ op = "CheckInvalidGenerators" /\ pc = "call"
    /\ \E r \in InvalidGenerators(applicationSetInfo) :
          /\ hasInvalidGenerators' = r.has
          /\ names' = r.names
          /\ recovered' = r.recovered
          /\ logged' = Warning(applicationSetInfo, r.has, r.names)
    /\ pc' = "done"
    /\ UNCHANGED <<op, applicationSetInfo>>
    /\ UNCHANGED renderVars
    /\ UNCHANGED fastVars

Next ==
    \/ CallRenderTemplateParams
    \/ CallReplaceWithFastTemplate
    \/ CallCheckInvalidGenerators

Spec == Init /\ [][Next]_vars

---------------------------------------------------------------------------
(* Properties of RenderTemplateParams *)

RenderDone == op = "RenderTemplateParams" /\ pc = "done"

Preserves == syncPolicy # <<>> /\ syncPolicy[1].PreserveResourcesOnDeletion

\* C1: after a successful render with a non-empty params mapping, the
\* returned object's finalizers are exactly the resources finalizer when the
\* deserialized object had none and no syncPolicy preserves the resources,
\* and are the deserialized object's finalizers, in their order, otherwise.
C1_FinalizerRule ==
    (RenderDone /\ err = <<>> /\ DOMAIN params # {}) =>
        /\ result # <<>> /\ replacedTmpl # <<>>
        /\ heap[result[1]].name = replacedTmpl[1].name
        /\ heap[result[1]].finalizers =
              IF ~Preserves /\ replacedTmpl[1].finalizers = <<>>
              THEN <<ResourcesFinalizer>>
              ELSE replacedTmpl[1].finalizers

C1_Witness ==
    /\ RenderDone /\ err = <<>> /\ DOMAIN params # {}
    /\ ~Preserves /\ syncPolicy # <<>>
    /\ replacedTmpl # <<>> /\ replacedTmpl[1].finalizers = <<>>
    /\ heap[result[1]].finalizers = <<ResourcesFinalizer>>

\* C2 as stated: after a successful render, for every params mapping, the
\* empty one included, the returned object's finalizers are non-empty unless
\* a syncPolicy preserves the resources.
C2_FinalizersNonEmpty ==
    (RenderDone /\ err = <<>> /\ ~Preserves) =>
        result # <<>> /\ heap[result[1]].finalizers # <<>>

\* C2: after a successful render with a non-empty params mapping, the
\* returned object's finalizers are non-empty unless a syncPolicy preserves
\* the resources.
C2_FinalizersNonEmptyWithParams ==
    (RenderDone /\ err = <<>> /\ ~Preserves /\ DOMAIN params # {}) =>
        result # <<>> /\ heap[result[1]].finalizers # <<>>

C2_Witness ==
    /\ RenderDone /\ err = <<>> /\ DOMAIN params # {}
    /\ syncPolicy = <<[PreserveResourcesOnDeletion |-> FALSE]>>
    /\ heap[TmplAddr].finalizers = <<>>
    /\ result # <<>> /\ Len(heap[result[1]].finalizers) = 1

\* C3: a call with a template and an empty params mapping returns the
\* template object itself and no error, and neither serializes, substitutes
\* nor deserializes: the object is as it was, finalizer rule not applied.
C3_EmptyParamsIdentity ==
    [][(op = "RenderTemplateParams" /\ pc = "call" /\ tmpl # <<>> /\ DOMAIN params = {}) =>
          /\ result' = tmpl /\ err' = <<>>
          /\ heap' = heap
          /\ replacedTmpl' = <<>> /\ replacedTmplStr' = <<>>
          /\ UNCHANGED fastVars]_vars

C3_Witness ==
    /\ RenderDone /\ DOMAIN params = {} /\ tmpl # <<>>
    /\ result = tmpl /\ err = <<>>
    /\ ~Preserves /\ heap[result[1]].finalizers = <<>>
    /\ heap[result[1]].name = TokX

\* C4 as stated: on the fast path, a template whose name is the token {{x}}
\* rendered with a value v for x, over letters, quote, backslash, newline,
\* tab and other control characters, succeeds and the name is exactly v.
C4_EscapingRoundTrips ==
    (/\ RenderDone /\ tmpl # <<>>
     /\ templateOptions = <<>> \/ ~templateOptions[1].GotemplateEnabled
     /\ heap[TmplAddr].name = TokX
     /\ <<"x">> \in DOMAIN params) =>
        /\ err = <<>> /\ result # <<>>
        /\ heap[result[1]].name = params[<<"x">>]

\* C6: a failure of any step returns the error with no object: nothing is
\* published, the finalizer rule is not applied, and the error of a nil
\* template is "application template is empty "; a call without an error
\* returns an object.
C6_FailureReturnsNoObject ==
    RenderDone =>
        /\ err # <<>> => /\ result = <<>>
                         /\ ReplacedAddr \notin DOMAIN heap
                         /\ replacedTmpl = <<>>
                         /\ tmpl # <<>> => heap = (TmplAddr :> heap[TmplAddr])
        /\ err = <<>> => result # <<>> /\ result[1] \in DOMAIN heap
        /\ tmpl = <<>> <=> err = <<"application template is empty ">>

C6_Witness ==
    /\ RenderDone /\ err = <<"error converting YAML to JSON">>
    /\ result = <<>> /\ replacedTmplStr # <<>>
    /\ ~Preserves /\ heap[TmplAddr].finalizers = <<>>

\* C9: RenderTemplateParams leaves the template object and the params
\* mapping as they were, and a successful call with a non-empty params
\* mapping returns an object that is not the template object.
C9_InputsUnchanged ==
    [][(op = "RenderTemplateParams" /\ pc = "call") =>
          /\ params' = params /\ tmpl' = tmpl
          /\ tmpl # <<>> => heap'[TmplAddr] = heap[TmplAddr]
          /\ (err' = <<>> /\ DOMAIN params # {}) =>
                /\ result' # <<>> /\ result' # tmpl
                /\ result'[1] \in DOMAIN heap' \ DOMAIN heap]_vars

C9_Witness ==
    /\ RenderDone /\ err = <<>> /\ result = <<ReplacedAddr>> /\ tmpl = <<TmplAddr>>
    /\ heap[ReplacedAddr].finalizers = <<ResourcesFinalizer>>
    /\ heap[TmplAddr].finalizers = <<>>
    /\ heap[ReplacedAddr].name # heap[TmplAddr].name

---------------------------------------------------------------------------
(* Properties of replaceWithFastTemplate *)

\* A call of replaceWithFastTemplate has returned: one made directly, or the
\* one RenderTemplateParams made.
FastCalled == pc = "done" /\ fstTmpl.ok

Unresolved(i) ==
    LET key == TrimSpace(fstTmpl.tags[i])
    IN  key = <<>> \/ key \notin DOMAIN replaceMap

\* The texts between the tags with a piece put in the place of each tag
RECURSIVE Interleaved(_, _, _)
Interleaved(texts, pieces, i) ==
    IF i > Len(pieces) THEN texts[i]
    ELSE texts[i] \o pieces[i] \o Interleaved(texts, pieces, i + 1)

Tokens(tags) == [i \in 1..Len(tags) |-> OPEN \o tags[i] \o CLOSE]

\* s occurs in text
Occurs(s, text) ==
    \E n \in 0..(Len(text) - Len(s)) : SubSeq(text, n + 1, n + Len(s)) = s

\* With allowUnresolved = TRUE: no error; each unresolved token is written
\* back as it was read, inner whitespace included; the text between the
\* tokens is kept.
WritesBack ==
    /\ unresolvedErr = <<>>
    /\ Len(writes) = Len(fstTmpl.tags)
    /\ \A i \in 1..Len(writes) : Unresolved(i) => writes[i] = Tokens(fstTmpl.tags)[i]
    /\ replaced = Interleaved(fstTmpl.texts, writes, 1)
    /\ fstTmpl.template = Interleaved(fstTmpl.texts, Tokens(fstTmpl.tags), 1)
    /\ (\A i \in 1..Len(writes) : Unresolved(i)) => replaced = fstTmpl.template

\* When the first pass wrote a token back: a second pass over the output
\* with the same mapping completes and its output holds each such token.
SecondPassKeepsTokens ==
    (\E i \in 1..Len(fstTmpl.tags) : Unresolved(i)) =>
        /\ NewTemplate(replaced).ok
        /\ \A i \in 1..Len(fstTmpl.tags) :
              Unresolved(i) =>
                 Occurs(Tokens(fstTmpl.tags)[i],
                        ReplaceWithFastTemplate(NewTemplate(replaced), replaceMap, TRUE).out)

\* C5 as stated: with allowUnresolved = TRUE unresolved tokens are written
\* back verbatim without an error, the text between the tokens is kept, and
\* a second pass over the output with the same mapping leaves those tokens
\* unchanged.
C5_SecondPassKeepsUnresolved ==
    (FastCalled /\ allowUnresolved) => WritesBack /\ SecondPassKeepsTokens

\* C10: with allowUnresolved = FALSE a call with an unresolved token
\* returns the error "failed to resolve" of one of its unresolved tokens and
\* the empty string, a call without one returns the substituted text and no
\* error; RenderTemplateParams calls with allowUnresolved = TRUE only, so no
\* render returns that error.
C10_UnresolvedIsAnError ==
    /\ (FastCalled /\ ~allowUnresolved) =>
          IF \E i \in 1..Len(fstTmpl.tags) : Unresolved(i)
          THEN /\ replaced = <<>>
               /\ \E i \in 1..Len(fstTmpl.tags) :
                     /\ Unresolved(i)
                     /\ unresolvedErr = <<"failed to resolve ">> \o Tokens(fstTmpl.tags)[i]
          ELSE /\ unresolvedErr = <<>>
               /\ replaced = Interleaved(fstTmpl.texts, writes, 1)
               /\ \A i \in 1..Len(fstTmpl.tags) :
                     writes[i] = EscapeReplacement(replaceMap[TrimSpace(fstTmpl.tags[i])])
    /\ (FastCalled /\ op = "RenderTemplateParams") =>
          /\ allowUnresolved /\ unresolvedErr = <<>>
          /\ err = <<>> \/ err[1] # "failed to resolve "
    /\ (RenderDone /\ replacedTmplStr # <<>> /\ UseFastTemplate(templateOptions)) =>
          FastCalled

C10_Witness ==
    /\ FastCalled /\ ~allowUnresolved /\ op = "replaceWithFastTemplate"
    /\ fstTmpl.tags = << <<"x">>, <<" ", "u">> >>
    /\ fstTmpl.texts[1] = <<"a">>
    /\ replaceMap = (<<"x">> :> <<"v">>)
    /\ unresolvedErr = <<"failed to resolve ">> \o TokU
    /\ replaced = <<>>

---------------------------------------------------------------------------
(* Properties of CheckInvalidGenerators *)

CheckDone == op = "CheckInvalidGenerators" /\ pc = "done"

\* The indexes (from 0) of the generators with no field set
InvalidIndexes ==
    {i \in 0..(Len(applicationSetInfo.generators) - 1) :
        applicationSetInfo.generators[i + 1] \cap GeneratorFields = {}}

\* C7: the flag is TRUE exactly when some generator has no field set, an
\* empty generator sequence gives FALSE and no names, and name recovery is
\* run for the generators with no field set and for no other.
C7_FlagIffAllSlotsNil ==
    CheckDone =>
        /\ hasInvalidGenerators <=> InvalidIndexes # {}
        /\ recovered = InvalidIndexes
        /\ InvalidIndexes = {} => names = {} /\ logged = NoWarning
        /\ InvalidIndexes # {} => logged # NoWarning

C7_Witness ==
    /\ CheckDone /\ hasInvalidGenerators
    /\ applicationSetInfo.generators = <<{"Git", "Matrix"}, {}>>
    /\ recovered = {1}

\* spec.generators of the annotation, when the annotation is a JSON object
\* with a mapping spec that has a sequence generators
AnnotatedGenerators ==
    LET a == applicationSetInfo.annotation
    IN  IF /\ a.kind = "json" /\ a.value.t = "object"
           /\ "spec" \in DOMAIN a.value.fields
           /\ a.value.fields["spec"].t = "object"
           /\ "generators" \in DOMAIN a.value.fields["spec"].fields
           /\ a.value.fields["spec"].fields["generators"].t = "array"
        THEN a.value.fields["spec"].fields["generators"].items
        ELSE <<>>

\* C8: the names are at most as many as the generators with no field set;
\* each is a key of the annotation's spec.generators entry at the index of
\* such a generator; an annotation that is missing, malformed or of another
\* shape adds no name, and the flag is TRUE all the same.
C8_NamesBestEffort ==
    CheckDone =>
        /\ Cardinality(names) <= Cardinality(InvalidIndexes)
        /\ \A n \in names :
              \E i \in InvalidIndexes :
                 /\ i < Len(AnnotatedGenerators)
                 /\ AnnotatedGenerators[i + 1].t = "object"
                 /\ n \in DOMAIN AnnotatedGenerators[i + 1].fields
        /\ AnnotatedGenerators = <<>> => names = {}
        /\ InvalidIndexes # {} => hasInvalidGenerators
        /\ (names = {} /\ InvalidIndexes # {}) =>
              logged.msg = "ApplicationSet %s contains unrecognized generators"

C8_Witness ==
    /\ CheckDone /\ hasInvalidGenerators
    /\ applicationSetInfo.generators = <<{"List"}, {}>>
    /\ Len(AnnotatedGenerators) = 2
    /\ DOMAIN AnnotatedGenerators[2].fields = {"git", "matrix"}
    /\ names = {"matrix"}

====
